---- MODULE Spec2Model ----
(***************************************************************************)
(* Model of the torchODE CUDA solver: solve_cpp (binding layer),           *)
(* solve_cuda (method lookup, shape dispatch, kernel launch) and the three *)
(* kernels the dispatch can launch.  Every CUDA thread is a process; the   *)
(* kernel launch is asynchronous, so the host's return interleaves with    *)
(* the threads.  general_solver (solver.cu:35-49) is launched by no branch *)
(* of the switch and has no action here.                                   *)
(*                                                                         *)
(* Arithmetic: the float values are modelled as exact rationals.  F, g,    *)
(* dt are integers; a state value and a method increment are kept as the   *)
(* integer numerator over the common denominator Scale (the product of     *)
(* the divisors of rk4_method), so both methods are computed exactly.      *)
(* Floating-point rounding is outside the model.                           *)
(***************************************************************************)
EXTENDS Integers, FiniteSets, Sequences, TLC

\* ---------------------------------------------------------------- bounds
\* largest state-vector length W that Init draws
MaxW == 4
\* largest step count that Init draws
MaxSteps == 2
\* threads per block; solver.cu:147 sets 512, scaled down here so that a
\* launch of several blocks with idle threads past W stays enumerable
threadsPerBlock == 2

\* values a read outside an array, or a call through a null device function
\* pointer, may produce (undefined behaviour: any value, or a fault)
Garbage == {0, 1}
DtSet == {1, 2}
Names == {"Euler", "RK4", "Heun"}
\* outcome of CHECK_INPUT on the three tensors
Layouts == {"ok", "bad"}
\* coefficient matrices: <<diagonal, off-diagonal, variation>>
FParams == {<<0, 0, 0>>, <<2, 1, 1>>}
Slopes == {0, 1}

\* common denominator of the values: rk4_method divides by 2, 2, 2, 2 and 6
Scale == 16 * 6

VARIABLES
    F_size, F_a,        \* coefficient matrix: leading dimension, entries
    x0_size, x0_a,      \* state vector: length, entries (numerators over Scale)
    g_size, g_a,        \* scale vector: length, entries
    dt, steps, name,    \* scalar arguments of solve
    layout,             \* whether the tensors pass CHECK_INPUT
    hpc,                \* host position: "call", "launched", "returned", "error"
    err,                \* the error the host raised, "none" when none
    d_chosen_method,    \* "none" before lookup; "euler", "rk4" or "null"
    kernel,             \* the kernel launched, "none" before the launch
    pc,                 \* per thread: "start", "loop", "done", "fault"
    loc,                \* per thread: the kernel's local variables
    fault,              \* a thread faulted: the kernel is aborted
    acc,                \* log of every array access made by a thread
    x0_init             \* history: the state vector as passed to solve

vars == <<F_size, F_a, x0_size, x0_a, g_size, g_a, dt, steps, name, layout,
          hpc, err, d_chosen_method, kernel, pc, loc, fault, acc, x0_init>>

inputs == <<F_size, F_a, x0_size, g_size, g_a, dt, steps, name, layout, x0_init>>

\* ------------------------------------------------------- integration methods
\* mutant: the textbook right-hand side, coefficient times the evolving state
euler_method_state(F_in, x0_in, g_in, d) == (F_in * x0_in) * d

\* euler_method: (F_in * g_in) * dt; x0_in is not used
euler_method(F_in, x0_in, g_in, d) == Scale * ((F_in * g_in) * d)

\* rk4_method, each stage kept as its numerator over the stage's denominator
rk4_method(F_in, x0_in, g_in, d) ==
    LET f1  == (F_in * g_in) * d                \* f1
        c2n == d * f1                           \* c2 = c2n / 2
        f2n == (F_in * (2 * g_in + c2n)) * d    \* f2 = f2n / 4
        c3n == d * f2n                          \* c3 = c3n / 8
        f3n == (F_in * (8 * g_in + c3n)) * d    \* f3 = f3n / 16
        c4n == d * f3n                          \* c4 = c4n / 16
        f4n == (F_in * (16 * g_in + c4n)) * d   \* f4 = f4n / 16
    IN  16 * f1 + 8 * f2n + 2 * f3n + f4n       \* (f1+2f2+2f3+f4)/6 over 96

\* h_methods[name]: std::map::operator[] inserts a null pointer for a key
\* that is not in the map
MethodLookup(nm) ==
    IF nm = "Euler" THEN "euler" ELSE IF nm = "RK4" THEN "rk4" ELSE "null"

\* the values a call method(F_in, x0_in, g_in, dt) may return
MethodResults(m, F_in, x0_in, g_in, d) ==
    IF m = "euler" THEN {euler_method(F_in, x0_in, g_in, d)}
    ELSE IF m = "rk4" THEN {rk4_method(F_in, x0_in, g_in, d)}
    ELSE Garbage

\* whether a call through m may fault
MethodFaults(m) == IF m = "null" THEN {TRUE, FALSE} ELSE {FALSE}

\* ------------------------------------------------------------ array accesses
Access(u, a, r, c, k) == [unit |-> u, arr |-> a, row |-> r, col |-> c, kind |-> k]

xRead(i) == IF i \in 0..(x0_size - 1) THEN {x0_a[i]} ELSE Garbage
gRead(i) == IF i \in 0..(g_size - 1) THEN {g_a[i]} ELSE Garbage
FRead(r, c) ==
    IF r \in 0..(F_size - 1) /\ c \in 0..(F_size - 1) THEN {F_a[<<r, c>>]} ELSE Garbage

\* x0_a[i] = v; a write outside the array does not land in the state vector
xWrite(x, i, v) == IF i \in DOMAIN x THEN [x EXCEPT ![i] = v] ELSE x

InBounds(a) ==
    IF a.arr = "x0" THEN a.row \in 0..(x0_size - 1)
    ELSE IF a.arr = "g" THEN a.row \in 0..(g_size - 1)
    ELSE a.row \in 0..(F_size - 1) /\ a.col \in 0..(F_size - 1)

\* an access outside an array may fault
AccessFaults(as) == IF \A a \in as : InBounds(a) THEN {FALSE} ELSE {TRUE, FALSE}

\* ------------------------------------------------------------------- host
\* blocks = (x0_size + threadsPerBlock - 1) / threadsPerBlock
NumBlocks(n) == (n + threadsPerBlock - 1) \div threadsPerBlock

Threads == DOMAIN pc

\* switch(F_size)
Dispatch(n) ==
    IF n = 1 THEN "compact_diagonal_solver"
    ELSE IF n = 2 THEN "compact_skew_symmetric_solver"
    ELSE "general_skew_symmetric_solver"

NoLocals == [i |-> 0]

\* the state when solve is called with the given arguments
Called(W, N, gl, fp, sb, d, s, nm, lay) ==
    /\ x0_size = W
    /\ x0_a = [i \in 0..(W - 1) |-> Scale * (1 + sb * i)]
    /\ x0_init = x0_a
    /\ g_size = gl
    /\ g_a = [i \in 0..(gl - 1) |-> 1 + 2 * sb * i]
    /\ F_size = N
    /\ F_a = [p \in (0..(N - 1)) \X (0..(N - 1)) |->
                (IF p[1] = p[2] THEN fp[1]
                 ELSE IF p[1] < p[2] THEN fp[2] ELSE 0 - fp[2])
                + fp[3] * (p[1] + 2 * p[2])]
    /\ dt = d
    /\ steps = s
    /\ name = nm
    /\ layout = lay
    /\ hpc = "call"
    /\ err = "none"
    /\ d_chosen_method = "none"
    /\ kernel = "none"
    /\ pc = [u \in {} |-> "start"]
    /\ loc = [u \in {} |-> NoLocals]
    /\ fault = FALSE
    /\ acc = {}

\* the documented preconditions of solve
ValidName == name \in {"Euler", "RK4"}
ValidShape == F_size \in {1, 2, x0_size}
ValidLength == g_size = x0_size
ValidCall == ValidName /\ ValidShape /\ ValidLength /\ layout = "ok"

\* how many of the preconditions a call breaks
Broken ==
    (IF ValidName THEN 0 ELSE 1) + (IF ValidShape THEN 0 ELSE 1)
    + (IF ValidLength THEN 0 ELSE 1) + (IF layout = "ok" THEN 0 ELSE 1)

\* any call: well-formed, or breaking one of the preconditions
Init ==
    \E W \in 1..MaxW, N \in 1..MaxW, gl \in 0..(MaxW + 1), fp \in FParams,
       sb \in Slopes, d \in DtSet, s \in 0..MaxSteps, nm \in Names, lay \in Layouts :
        /\ N \in {1, 2, 3, W}
        /\ gl \in {W - 1, W, W + 1}
        /\ Called(W, N, gl, fp, sb, d, s, nm, lay)
        /\ Broken <= 1

\* the calls that meet every precondition
InitValid == Init /\ ValidCall

\* solve_cpp: CHECK_INPUT on F, x0, g, then solve_cuda up to the kernel
\* launch: the method lookup and the switch on F_size.  Nothing else is
\* checked.  The launch is asynchronous: the threads start, the host goes on.
solve ==
    /\ hpc = "call"
    /\ IF layout # "ok"
       THEN /\ hpc' = "error"
            /\ err' = "check_input"
            /\ UNCHANGED <<d_chosen_method, kernel, pc, loc>>
       ELSE /\ hpc' = "launched"
            /\ err' = "none"
            /\ d_chosen_method' = MethodLookup(name)
            /\ kernel' = Dispatch(F_size)
            /\ pc' = [u \in 0..(NumBlocks(x0_size) * threadsPerBlock - 1) |-> "start"]
            /\ loc' = [u \in 0..(NumBlocks(x0_size) * threadsPerBlock - 1) |-> NoLocals]
    /\ UNCHANGED <<inputs, x0_a, fault, acc>>

\* return x0: solve_cuda returns right after the launch, without
\* cudaDeviceSynchronize
solve_return ==
    /\ hpc = "launched"
    /\ hpc' = "returned"
    /\ UNCHANGED <<inputs, x0_a, err, d_chosen_method, kernel, pc, loc, fault, acc>>

\* ------------------------------------------------ kernels: shared pieces
\* a thread faults: the kernel is aborted, no thread runs on
Abort(u) ==
    /\ fault' = TRUE
    /\ pc' = [pc EXCEPT ![u] = "fault"]
    /\ UNCHANGED <<loc, x0_a>>

Running(u, at) == u \in Threads /\ pc[u] = at /\ ~fault

\* mutant: one iteration too many
LoopCondInclusive(iv) == iv <= steps

\* for(int i = 0; i < steps; i++)
LoopCond(iv) == iv < steps

\* ------------------------------------------------- compact_diagonal_solver
\* if(tid < x0_size)
DiagGuard(tid) == tid < x0_size

\* tid = blockIdx.x * blockDim.x + threadIdx.x; the guard; the three loads
compact_diagonal_solver_load(u) ==
    /\ kernel = "compact_diagonal_solver"
    /\ Running(u, "start")
    /\ IF ~DiagGuard(u)
       THEN /\ pc' = [pc EXCEPT ![u] = "done"]
            /\ UNCHANGED <<loc, fault, acc, x0_a>>
       ELSE LET as == {Access(u, "x0", u, 0, "r"), Access(u, "g", u, 0, "r"),
                       Access(u, "F", 0, 0, "r")}
            IN  /\ acc' = acc \cup as
                /\ \E xv \in xRead(u), gv \in gRead(u), fv \in FRead(0, 0),
                      flt \in AccessFaults(as) :
                      IF flt THEN Abort(u)
                      ELSE /\ loc' = [loc EXCEPT ![u] =
                                        [x0_in |-> xv, g_in |-> gv, F_in |-> fv, i |-> 0]]
                           /\ pc' = [pc EXCEPT ![u] = "loop"]
                           /\ UNCHANGED <<fault, x0_a>>
    /\ UNCHANGED <<inputs, hpc, err, d_chosen_method, kernel>>

\* x0_in = x0_in + method(F_in, x0_in, g_in, dt); i++
compact_diagonal_solver_step(u) ==
    /\ kernel = "compact_diagonal_solver"
    /\ Running(u, "loop")
    /\ LoopCond(loc[u].i)
    /\ \E r \in MethodResults(d_chosen_method, loc[u].F_in, loc[u].x0_in, loc[u].g_in, dt),
          flt \in MethodFaults(d_chosen_method) :
          IF flt THEN Abort(u)
          ELSE /\ loc' = [loc EXCEPT ![u].x0_in = @ + r, ![u].i = @ + 1]
               /\ UNCHANGED <<pc, fault, x0_a>>
    /\ UNCHANGED <<inputs, hpc, err, d_chosen_method, kernel, acc>>

\* x0_a[tid] = x0_in
compact_diagonal_solver_store(u) ==
    /\ kernel = "compact_diagonal_solver"
    /\ Running(u, "loop")
    /\ ~LoopCond(loc[u].i)
    /\ x0_a' = xWrite(x0_a, u, loc[u].x0_in)
    /\ acc' = acc \cup {Access(u, "x0", u, 0, "w")}
    /\ pc' = [pc EXCEPT ![u] = "done"]
    /\ UNCHANGED <<inputs, hpc, err, d_chosen_method, kernel, loc, fault>>

\* ------------------------------ compact_ and general_skew_symmetric_solver
\* mutant: the guard of the one-element kernels
PairedGuardFull(tid) == tid < x0_size

\* if(tid < x0_size/2)
PairedGuard(tid) == tid < x0_size \div 2

\* mutant: pair each element with its neighbour
PartnerIndexAdjacent(tid) == tid + 1

\* tid + x0_size/2
PartnerIndex(tid) == tid + x0_size \div 2

\* the entries read as UL_v, UR_v, LL_v, LR_v
CompactCoef(tid) == <<<<0, 0>>, <<0, 1>>, <<1, 0>>, <<1, 1>>>>
GeneralCoef(tid) ==
    <<<<tid, tid>>, <<tid, PartnerIndex(tid)>>,
      <<PartnerIndex(tid), tid>>, <<PartnerIndex(tid), PartnerIndex(tid)>>>>

\* x0_in_1 = x0_in_1 + method(UL_v, ...) + method(UR_v, ...)
FirstUpdate(x1, a, b) == x1 + a + b

\* mutant: a simultaneous update, from the value x0_in_1 had before the step
SecondUpdateSimultaneous(x1new, x1old, x2old, c, e) == x1old + c + e

\* x0_in_2 = x0_in_1 + method(LL_v, ...) + method(LR_v, ...), where x0_in_1
\* (x1new) is the value the statement before has just assigned
SecondUpdate(x1new, x1old, x2old, c, e) == x1new + c + e

PairedLoad(u, coef) ==
    /\ Running(u, "start")
    /\ IF ~PairedGuard(u)
       THEN /\ pc' = [pc EXCEPT ![u] = "done"]
            /\ UNCHANGED <<loc, fault, acc, x0_a>>
       ELSE LET v  == PartnerIndex(u)
                as == {Access(u, "g", u, 0, "r"), Access(u, "g", v, 0, "r"),
                       Access(u, "x0", u, 0, "r"), Access(u, "x0", v, 0, "r")}
                      \cup {Access(u, "F", coef[k][1], coef[k][2], "r") : k \in 1..4}
            IN  /\ acc' = acc \cup as
                /\ \E g1 \in gRead(u), g2 \in gRead(v), x1 \in xRead(u), x2 \in xRead(v),
                      ul \in FRead(coef[1][1], coef[1][2]), ur \in FRead(coef[2][1], coef[2][2]),
                      ll \in FRead(coef[3][1], coef[3][2]), lr \in FRead(coef[4][1], coef[4][2]),
                      flt \in AccessFaults(as) :
                      IF flt THEN Abort(u)
                      ELSE /\ loc' = [loc EXCEPT ![u] =
                                        [g_in_1 |-> g1, g_in_2 |-> g2,
                                         x0_in_1 |-> x1, x0_in_2 |-> x2,
                                         UL_v |-> ul, UR_v |-> ur, LL_v |-> ll, LR_v |-> lr,
                                         i |-> 0]]
                           /\ pc' = [pc EXCEPT ![u] = "loop"]
                           /\ UNCHANGED <<fault, x0_a>>
    /\ UNCHANGED <<inputs, hpc, err, d_chosen_method, kernel>>

PairedStep(u) ==
    /\ Running(u, "loop")
    /\ LoopCond(loc[u].i)
    /\ LET l == loc[u]
           m == d_chosen_method
       IN  \E a \in MethodResults(m, l.UL_v, l.x0_in_1, l.g_in_1, dt),
              b \in MethodResults(m, l.UR_v, l.x0_in_2, l.g_in_2, dt),
              flt \in MethodFaults(m) :
              LET n1 == FirstUpdate(l.x0_in_1, a, b)
              IN  \E c \in MethodResults(m, l.LL_v, n1, l.g_in_1, dt),
                     e \in MethodResults(m, l.LR_v, l.x0_in_2, l.g_in_2, dt) :
                     IF flt THEN Abort(u)
                     ELSE /\ loc' = [loc EXCEPT
                                       ![u].x0_in_1 = n1,
                                       ![u].x0_in_2 = SecondUpdate(n1, l.x0_in_1, l.x0_in_2, c, e),
                                       ![u].i = @ + 1]
                          /\ UNCHANGED <<pc, fault, x0_a>>
    /\ UNCHANGED <<inputs, hpc, err, d_chosen_method, kernel, acc>>

\* x0_a[tid] = x0_in_1; x0_a[tid + x0_size/2] = x0_in_2
PairedStore(u) ==
    /\ Running(u, "loop")
    /\ ~LoopCond(loc[u].i)
    /\ x0_a' = xWrite(xWrite(x0_a, u, loc[u].x0_in_1), PartnerIndex(u), loc[u].x0_in_2)
    /\ acc' = acc \cup {Access(u, "x0", u, 0, "w"), Access(u, "x0", PartnerIndex(u), 0, "w")}
    /\ pc' = [pc EXCEPT ![u] = "done"]
    /\ UNCHANGED <<inputs, hpc, err, d_chosen_method, kernel, loc, fault>>

compact_skew_symmetric_solver_load(u) ==
    kernel = "compact_skew_symmetric_solver" /\ PairedLoad(u, CompactCoef(u))
compact_skew_symmetric_solver_step(u) ==
    kernel = "compact_skew_symmetric_solver" /\ PairedStep(u)
compact_skew_symmetric_solver_store(u) ==
    kernel = "compact_skew_symmetric_solver" /\ PairedStore(u)

general_skew_symmetric_solver_load(u) ==
    kernel = "general_skew_symmetric_solver" /\ PairedLoad(u, GeneralCoef(u))
general_skew_symmetric_solver_step(u) ==
    kernel = "general_skew_symmetric_solver" /\ PairedStep(u)
general_skew_symmetric_solver_store(u) ==
    kernel = "general_skew_symmetric_solver" /\ PairedStore(u)

\* the threads a launch can create, for any W up to MaxW
AllThreads == 0..(NumBlocks(MaxW) * threadsPerBlock - 1)

Next ==
    \/ solve
    \/ solve_return
    \/ \E u \in AllThreads : compact_diagonal_solver_load(u)
    \/ \E u \in AllThreads : compact_diagonal_solver_step(u)
    \/ \E u \in AllThreads : compact_diagonal_solver_store(u)
    \/ \E u \in AllThreads : compact_skew_symmetric_solver_load(u)
    \/ \E u \in AllThreads : compact_skew_symmetric_solver_step(u)
    \/ \E u \in AllThreads : compact_skew_symmetric_solver_store(u)
    \/ \E u \in AllThreads : general_skew_symmetric_solver_load(u)
    \/ \E u \in AllThreads : general_skew_symmetric_solver_step(u)
    \/ \E u \in AllThreads : general_skew_symmetric_solver_store(u)

Spec == Init /\ [][Next]_vars

SpecValid == InitValid /\ [][Next]_vars

\* ------------------------------------------------------------- properties
Paired == kernel \in {"compact_skew_symmetric_solver", "general_skew_symmetric_solver"}

AllDone == kernel # "none" /\ \A u \in Threads : pc[u] = "done"

XAccesses == {a \in acc : a.arr = "x0"}

ZeroMatrix == \A p \in DOMAIN F_a : F_a[p] = 0

\* the increment of a recognized method
Method(m, F_in, x0_in, g_in, d) ==
    IF m = "euler" THEN euler_method(F_in, x0_in, g_in, d)
    ELSE rk4_method(F_in, x0_in, g_in, d)

\* one thread alone, run to the end: n iterations of the one-element loop
RECURSIVE DiagIter(_, _, _, _)
DiagIter(x, gi, c, n) ==
    IF n = 0 THEN x
    ELSE DiagIter(x + Method(d_chosen_method, c, x, gi, dt), gi, c, n - 1)

\* one thread alone, run to the end: n iterations of the paired loop
RECURSIVE PairIter(_, _, _, _)
PairIter(x, gg, cf, n) ==
    IF n = 0 THEN x
    ELSE LET m  == d_chosen_method
             n1 == FirstUpdate(x[1], Method(m, cf[1], x[1], gg[1], dt),
                                     Method(m, cf[2], x[2], gg[2], dt))
             n2 == SecondUpdate(n1, x[1], x[2], Method(m, cf[3], n1, gg[1], dt),
                                                Method(m, cf[4], x[2], gg[2], dt))
         IN  PairIter(<<n1, n2>>, gg, cf, n - 1)

\* the pair thread tid ends with, from the arguments of the call alone
PairFinal(tid) ==
    LET v  == tid + x0_size \div 2
        ix == IF kernel = "compact_skew_symmetric_solver"
              THEN <<<<0, 0>>, <<0, 1>>, <<1, 0>>, <<1, 1>>>>
              ELSE <<<<tid, tid>>, <<tid, v>>, <<v, tid>>, <<v, v>>>>
    IN  PairIter(<<x0_init[tid], x0_init[v]>>, <<g_a[tid], g_a[v]>>,
                 [k \in 1..4 |-> F_a[ix[k]]], steps)

\* the state vector a call ends with when its threads run one after another
Final ==
    LET h == x0_size \div 2
    IN  [i \in 0..(x0_size - 1) |->
            IF ~Paired THEN DiagIter(x0_init[i], g_a[i], F_a[<<0, 0>>], steps)
            ELSE IF i < h THEN PairFinal(i)[1]
            ELSE IF i < 2 * h THEN PairFinal(i - h)[2]
            ELSE x0_init[i]]

\* C1: a call with a method name other than "Euler" and "RK4" fails with an
\* unrecognized-method error before any kernel is launched: no thread exists
\* and the state vector is as it was passed.
C1_UnknownMethodRejected ==
    (~ValidName /\ layout = "ok" /\ hpc # "call") =>
        /\ hpc = "error"
        /\ err = "unrecognized_method"
        /\ kernel = "none"
        /\ Threads = {}
        /\ x0_a = x0_init

\* C2: when solve has returned to the caller, every launched thread has
\* finished its loop and written its value(s) back.
C2_ReturnedImpliesAllDone ==
    (ValidCall /\ hpc = "returned") => \A u \in Threads : pc[u] = "done"

\* C3: with Euler and an all-zero coefficient matrix, a finished call leaves
\* every element of the state vector at its initial value, for every shape.
C3_EulerZeroMatrixIdentity ==
    (ValidCall /\ name = "Euler" /\ ZeroMatrix /\ AllDone) => x0_a = x0_init

\* C4: for a valid call with steps = 0 the state vector equals the initial
\* one, in every state of the call and so when it has finished.
C4_ZeroStepsIdentity ==
    (ValidCall /\ steps = 0) => x0_a = x0_init

C4_Witness ==
    /\ ValidCall /\ steps = 0 /\ AllDone /\ Paired /\ x0_size >= 2
    /\ \E a \in XAccesses : a.kind = "w" /\ a.row = 1

\* C5: compact diagonal kernel with Euler: thread i holds x0[i] + k*c*g[i]*dt
\* after k iterations, writes x0[i] + steps*c*g[i]*dt to element i, touches
\* element i of x0 and g and F[0][0] only, and element i keeps its initial
\* value until thread i writes.
C5_CompactDiagonalEuler ==
    (ValidCall /\ F_size = 1 /\ name = "Euler") =>
        \A u \in Threads : u < x0_size =>
            LET c == F_a[<<0, 0>>]
            IN  /\ pc[u] = "loop" =>
                    loc[u].x0_in = x0_init[u] + loc[u].i * (Scale * c * g_a[u] * dt)
                /\ pc[u] = "done" =>
                    x0_a[u] = x0_init[u] + steps * (Scale * c * g_a[u] * dt)
                /\ pc[u] # "done" => x0_a[u] = x0_init[u]
                /\ \A a \in acc : a.unit = u =>
                    IF a.arr = "F" THEN a.row = 0 /\ a.col = 0 ELSE a.row = u

\* the scenario W = 4, F = [[2]], x0 = g = [1,1,1,1], one step, with dt = 1
C5_Witness ==
    /\ ValidCall /\ F_size = 1 /\ name = "Euler" /\ AllDone
    /\ x0_size = 4 /\ F_a[<<0, 0>>] = 2 /\ dt = 1 /\ steps = 1
    /\ \A i \in 0..3 : x0_init[i] = Scale /\ g_a[i] = 1 /\ x0_a[i] = 3 * Scale

\* C6: a call whose x0 and g differ in length is rejected before any
\* parallel work: no kernel, no access by a thread, state vector untouched.
C6_LengthMismatchRejected ==
    (~ValidLength /\ layout = "ok" /\ hpc # "call") =>
        /\ hpc = "error"
        /\ kernel = "none"
        /\ acc = {}
        /\ x0_a = x0_init

\* C7: no element of the state vector is accessed by two distinct threads,
\* the threads write to the state vector only (F and g are only read), and
\* whatever the interleaving a finished call holds the state vector that
\* running the threads one after another gives.
C7_DisjointAccess ==
    /\ \A a \in XAccesses : \A b \in XAccesses : a.row = b.row => a.unit = b.unit
    /\ \A a \in acc : a.kind = "w" => a.arr = "x0"
    /\ (ValidCall /\ AllDone) => x0_a = Final

C7_Witness ==
    /\ ValidCall /\ Paired /\ x0_size = 4 /\ steps >= 1
    /\ pc[0] = "done" /\ pc[1] = "loop"
    /\ x0_a[0] # x0_init[0] /\ x0_a[3] = x0_init[3]

\* C8: in both paired kernels one iteration updates element i first and
\* computes element i + W/2 from the value element i has just been given;
\* the result differs from the one computed from element i's value before
\* the iteration whenever element i's increment is not zero.
C8_SequentialPairUpdate ==
    [][\A u \in Threads :
        (Paired /\ ValidName /\ pc[u] = "loop" /\ loc'[u].i = loc[u].i + 1) =>
            LET l    == loc[u]
                m    == d_chosen_method
                inc1 == Method(m, l.UL_v, l.x0_in_1, l.g_in_1, dt)
                        + Method(m, l.UR_v, l.x0_in_2, l.g_in_2, dt)
                inc2 == Method(m, l.LL_v, loc'[u].x0_in_1, l.g_in_1, dt)
                        + Method(m, l.LR_v, l.x0_in_2, l.g_in_2, dt)
            IN  /\ loc'[u].x0_in_1 = l.x0_in_1 + inc1
                /\ loc'[u].x0_in_2 = loc'[u].x0_in_1 + inc2
                /\ inc1 # 0 => loc'[u].x0_in_2 # l.x0_in_1 + inc2]_vars

C8_Witness ==
    \E u \in Threads :
        /\ Paired /\ ValidCall /\ pc[u] = "loop" /\ loc[u].i = 1
        /\ loc[u].x0_in_1 # x0_init[u]
        /\ loc[u].x0_in_2 # x0_init[u + x0_size \div 2]

\* C9: in a finished valid call every index 0..W-1 of the state vector has
\* been written back by some thread.
C9_EveryElementCovered ==
    (ValidCall /\ AllDone) =>
        \A i \in 0..(x0_size - 1) : \E a \in XAccesses : a.kind = "w" /\ a.row = i

\* C10: when len(g) = len(x0) and F is square of dimension 1, 2 or W, every
\* access of every thread is in bounds, no thread faults, and a thread whose
\* index is past the work size (W, or W/2 in the paired kernels) accesses nothing.
C10_AccessesInBounds ==
    (ValidLength /\ ValidShape) =>
        /\ \A a \in acc : InBounds(a)
        /\ \A a \in acc : a.unit < (IF Paired THEN x0_size \div 2 ELSE x0_size)
        /\ ValidName => ~fault

C10_Witness ==
    /\ ValidCall /\ AllDone /\ kernel = "general_skew_symmetric_solver"
    /\ x0_size = 4
    /\ \E a \in acc : a.arr = "F" /\ a.row = 3 /\ a.col = 3
    /\ \E a \in acc : a.arr = "g" /\ a.row = 3
====
